---- MODULE Spec2Model ----
(***************************************************************************)
(* Model of the event-reconciliation consumer of sec-microservice-pt:      *)
(* UpdateEvent.process_message -> create_from_message ->                   *)
(* _check_valid_user_event -> update_table -> one of six mutators run      *)
(* through the retry loop __db_access_loop                                 *)
(* (src/backend/app/messages/event.py).                                    *)
(***************************************************************************)
EXTENDS Integers, Sequences, FiniteSets, TLC

(***************************************************************************)
(* Bounds of the model.                                                    *)
(***************************************************************************)
\* number of messages handed to process_message in one behaviour
MaxMessages == 2
\* the count of get_db() calls of one message saturates here (the loop itself
\* puts no bound on it when get_db() raises while db is None)
MaxObserved == 6

(***************************************************************************)
(* Program constants.                                                      *)
(***************************************************************************)
\* __db_access_loop(..., retries: int = 5)
Retries == 5
\* db: Session | None = None
NoDb == 0

\* err: Exception | None = None
NoErr == "None"
\* raise Exception("Failed to connect to the database")
ConnectError == "Failed to connect to the database"
\* an error raised by next(get_db()) itself: a connection error of the
\* session factory
AcquireError == "AcquireError"
\* next() on a generator that has nothing more to yield
StopIter == "StopIteration"
\* what a StopIteration that leaves a coroutine is turned into
RuntimeErr == "RuntimeError"
\* self.data["id"] / self.data["name"] on a payload without that key
KeyErr == "KeyError"
\* a database operation (flush, commit) that fails
DbError == "DatabaseError"
\* a TypeError or ValueError of the envelope parser
TypeErr == "TypeError"
ValueErr == "ValueError"
\* json.loads on text nested deeper than the interpreter's recursion limit
RecursionErr == "RecursionError"

\* app.router.utils.EnterpriseEvents / UserEvents
ENTERPRISE_CREATED == "enterprise.created"
ENTERPRISE_UPDATED == "enterprise.updated"
ENTERPRISE_DELETED == "enterprise.deleted"
USER_CREATED == "user.created"
USER_UPDATED == "user.updated"
USER_DELETED == "user.deleted"
EnterpriseEvents == {ENTERPRISE_CREATED, ENTERPRISE_UPDATED, ENTERPRISE_DELETED}
UserEvents == {USER_CREATED, USER_UPDATED, USER_DELETED}
\* a kind that is none of the six
OTHER_KIND == "product.created"

\* app.models.scope.DefaultScope
PATRIMONIAL == "PATRIMONIAL"
ALL == "ALL"
SELLS == "SELLS"
HUMAN_RESOURCE == "HUMAN_RESOURCE"
DefaultScope == {PATRIMONIAL, ALL, SELLS, HUMAN_RESOURCE}
\* update_scope: str | None = None
NoScope == "None"

\* the five keys create_from_message requires
Required == {"event", "event_scope", "data", "origin", "start_date"}

Has(d, k) == k \in DOMAIN d

(***************************************************************************)
(* The envelope parser.  A raw message is given by what json.loads makes   *)
(* of it: jtype "invalid" (JSONDecodeError), "deep" (RecursionError: text   *)
(* nested beyond the recursion limit), "bignum" (ValueError: an integer    *)
(* literal longer than the interpreter's digit limit) or the type of the   *)
(* decoded value; has = the required names x for which `x in message_dict` *)
(* is true (keys of an object, elements of an array, substrings of a       *)
(* string).                                                                *)
(***************************************************************************)
JScalar == {"number", "bool", "null"}
\* the texts json.loads makes no value of; only the first is caught
Undecodable == {"invalid", "deep", "bignum"}

\* json.loads(message): the error it raises, NoErr when it returns a value
json_loads(m) ==
    CASE m.jtype = "invalid" -> "JSONDecodeError"
      [] m.jtype = "deep" -> RecursionErr
      [] m.jtype = "bignum" -> ValueErr
      [] OTHER -> NoErr

EventOf(m) ==
    [event |-> m.event, event_scope |-> m.event_scope, data |-> m.data,
     update_scope |-> m.update_scope, full_user |-> m.user]

\* the parser with a start_date it cannot read treated as a missing field
create_from_messageLenient(m) ==
    IF json_loads(m) \notin {NoErr, "JSONDecodeError"}
    THEN [tag |-> "raise", exc |-> json_loads(m)]
    ELSE IF m.jtype # "object" \/ m.has # Required \/ m.start_date # "iso"
    THEN [tag |-> "none"]
    ELSE [tag |-> "event", ev |-> EventOf(m)]

\* result: tag "none" (returns None), "raise" (an error propagates), "event";
\* `except json.JSONDecodeError` catches that error and no other
create_from_message(m) ==
    IF json_loads(m) = "JSONDecodeError" THEN [tag |-> "none"]
    ELSE IF json_loads(m) # NoErr THEN [tag |-> "raise", exc |-> json_loads(m)]
    ELSE IF m.jtype \in JScalar THEN [tag |-> "raise", exc |-> TypeErr]
    ELSE IF m.has # Required THEN [tag |-> "none"]
    ELSE IF m.jtype # "object" THEN [tag |-> "raise", exc |-> TypeErr]
    ELSE IF m.start_date = "notastring" THEN [tag |-> "raise", exc |-> TypeErr]
    ELSE IF m.start_date # "iso" THEN [tag |-> "raise", exc |-> ValueErr]
    ELSE [tag |-> "event", ev |-> EventOf(m)]

(***************************************************************************)
(* The scope filter.                                                       *)
(***************************************************************************)
\* the filter without the update_scope override
check_valid_user_eventNoOverride(ev) ==
    /\ ev.event \in (UserEvents \cup EnterpriseEvents)
    /\ ev.event_scope \in {PATRIMONIAL, ALL}

check_valid_user_event(ev) ==
    IF ev.event \in (UserEvents \cup EnterpriseEvents)
    THEN LET check_update_scope ==
                 IF ev.update_scope # NoScope THEN ev.update_scope ELSE ""
         IN  \/ ev.event_scope = PATRIMONIAL
             \/ ev.event_scope = ALL
             \/ check_update_scope = PATRIMONIAL
             \/ check_update_scope = ALL
    ELSE FALSE

(***************************************************************************)
(* The relational store.  A table is a set of rows; the primary key is the *)
(* field id.  A commit is all-or-nothing: a failed one leaves the store as *)
(* it was.                                                                 *)
(***************************************************************************)
\* session.get(Entity, id): the rows with that primary key (none or one)
Get(table, id) == {r \in table : r.id = id}
Row(table, id) == CHOOSE r \in table : r.id = id
Ids(table) == {r.id : r \in table}

\* JSON null / Python None for a string field and for an integer field (both
\* falsy, like 0)
Null == "NULL"
NullId == 0

\* the primary key the store gives a row that is inserted without one
Max(S) == CHOOSE x \in S : \A y \in S : y <= x
NextId(table) == IF table = {} THEN 1 ELSE Max(Ids(table)) + 1

\* the primary key of the row Entity(**data) becomes: the payload's id, or
\* (id absent or null) the one the store generates at the insert
NewId(data, table) ==
    IF Has(data, "id") /\ data.id # NullId THEN data.id ELSE NextId(table)

\* the outcome of one mutator invocation: the store it leaves, the error
\* that escapes it ("None" when it returns), whether its `with db` block
\* was entered (leaving the block closes the session), whether it committed
Outcome(s, exc, entered, committed) ==
    [store |-> s, exc |-> exc, entered |-> entered, committed |-> committed]

\* delete_enterprise deleting the children of the enterprise itself
delete_enterpriseCascade(s, data, dbfail) ==
    IF ~Has(data, "id") THEN Outcome(s, KeyErr, TRUE, FALSE)
    ELSE IF Get(s.ent, data.id) = {} THEN Outcome(s, NoErr, TRUE, FALSE)
    ELSE IF dbfail THEN Outcome(s, DbError, TRUE, FALSE)
    ELSE Outcome([ent |-> s.ent \ Get(s.ent, data.id),
                  usr |-> {r \in s.usr : r.enterprise_id # data.id},
                  role |-> {r \in s.role : r.enterprise_id # data.id},
                  scope |-> {r \in s.scope : r.enterprise_id # data.id}],
                 NoErr, TRUE, TRUE)

\* delete_enterprise that has deleted the enterprise's users when its commit
\* fails
delete_enterprisePartial(s, data, dbfail) ==
    IF ~Has(data, "id") THEN Outcome(s, KeyErr, TRUE, FALSE)
    ELSE IF Get(s.ent, data.id) = {} THEN Outcome(s, NoErr, TRUE, FALSE)
    ELSE IF dbfail
         THEN Outcome([s EXCEPT !.usr = {r \in @ : r.enterprise_id # data.id}],
                      DbError, TRUE, FALSE)
    ELSE Outcome([s EXCEPT !.ent = @ \ Get(s.ent, data.id)], NoErr, TRUE, TRUE)

\* delete_enterprise.db_access: no try/except around the body
delete_enterprise(s, data, dbfail) ==
    IF ~Has(data, "id") THEN Outcome(s, KeyErr, TRUE, FALSE)
    ELSE IF Get(s.ent, data.id) = {} THEN Outcome(s, NoErr, TRUE, FALSE)
    ELSE IF dbfail THEN Outcome(s, DbError, TRUE, FALSE)
    ELSE Outcome([s EXCEPT !.ent = s.ent \ Get(s.ent, data.id)], NoErr, TRUE, TRUE)

\* delete_user raising when the user is not there
delete_userNotFoundRaises(s, data, dbfail) ==
    IF ~Has(data, "id") \/ Get(s.usr, data.id) = {}
    THEN Outcome(s, KeyErr, TRUE, FALSE)
    ELSE IF dbfail THEN Outcome(s, DbError, TRUE, FALSE)
    ELSE Outcome([s EXCEPT !.usr = s.usr \ Get(s.usr, data.id)], NoErr, TRUE, TRUE)

\* delete_user whose failed commit nevertheless persists the deletion
delete_userFailedCommitPersists(s, data, dbfail) ==
    IF ~Has(data, "id") THEN Outcome(s, KeyErr, TRUE, FALSE)
    ELSE IF Get(s.usr, data.id) = {} THEN Outcome(s, NoErr, TRUE, FALSE)
    ELSE IF dbfail
         THEN Outcome([s EXCEPT !.usr = s.usr \ Get(s.usr, data.id)],
                      DbError, TRUE, FALSE)
    ELSE Outcome([s EXCEPT !.usr = s.usr \ Get(s.usr, data.id)], NoErr, TRUE, TRUE)

\* delete_user.db_access: no try/except around the body
delete_user(s, data, dbfail) ==
    IF ~Has(data, "id") THEN Outcome(s, KeyErr, TRUE, FALSE)
    ELSE IF Get(s.usr, data.id) = {} THEN Outcome(s, NoErr, TRUE, FALSE)
    ELSE IF dbfail THEN Outcome(s, DbError, TRUE, FALSE)
    ELSE Outcome([s EXCEPT !.usr = s.usr \ Get(s.usr, data.id)], NoErr, TRUE, TRUE)

\* the except clause of update_enterprise formats self.data["name"] and
\* self.data["id"]: it raises KeyError itself when one of them is missing
update_enterprise_handler(data) ==
    IF Has(data, "name") /\ Has(data, "id") THEN NoErr ELSE KeyErr

\* the merge without exclude_none: a null of the payload overwrites the field
EnterpriseMergeOverwrite(row, data) ==
    [row EXCEPT
        !.name = IF Has(data, "name") THEN data.name ELSE @,
        !.accountable_email =
                 IF Has(data, "accountable_email") THEN data.accountable_email
                 ELSE @]

\* EnterpriseUpdate(**data).model_dump(exclude_none=True) applied by setattr
EnterpriseMerge(row, data) ==
    [row EXCEPT
        !.name = IF Has(data, "name") /\ data.name # Null
                 THEN data.name ELSE @,
        !.accountable_email =
                 IF Has(data, "accountable_email") /\ data.accountable_email # Null
                 THEN data.accountable_email ELSE @]

\* Enterprise.name is unique
NameTaken(ents, row) == \E e \in ents : e.id # row.id /\ e.name = row.name

update_enterprise(s, data, dbfail) ==
    IF ~Has(data, "id")
    THEN Outcome(s, update_enterprise_handler(data), TRUE, FALSE)
    ELSE IF Get(s.ent, data.id) = {} THEN Outcome(s, NoErr, TRUE, FALSE)
    ELSE LET old == Row(s.ent, data.id)
             new == EnterpriseMerge(old, data)
         IN  IF dbfail \/ NameTaken(s.ent, new)
             THEN Outcome(s, update_enterprise_handler(data), TRUE, FALSE)
             ELSE Outcome([s EXCEPT !.ent = (s.ent \ {old}) \cup {new}],
                          NoErr, TRUE, TRUE)

\* a created enterprise to which no child is attached
ChildRowsNone(seq, eid) == {}

\* the children of a created enterprise: Role(**r) / Scope(**s) attached to it
ChildRows(seq, eid) ==
    {[id |-> seq[i].id, name |-> seq[i].name, enterprise_id |-> eid] :
        i \in DOMAIN seq}
SeqIds(seq) == {seq[i].id : i \in DOMAIN seq}

\* create_enterprise.db_access: every error is caught and logged
create_enterprise(s, data, dbfail) ==
    IF ~Has(data, "roles") \/ ~Has(data, "scopes")
    THEN Outcome(s, NoErr, TRUE, FALSE)
    ELSE IF \/ dbfail
            \/ ~Has(data, "name")
            \/ ~Has(data, "accountable_email")
            \/ Get(s.ent, NewId(data, s.ent)) # {}
            \/ \E e \in s.ent : e.name = data.name
            \/ SeqIds(data.roles) \cap Ids(s.role) # {}
            \/ SeqIds(data.scopes) \cap Ids(s.scope) # {}
            \/ Cardinality(SeqIds(data.roles)) # Len(data.roles)
            \/ Cardinality(SeqIds(data.scopes)) # Len(data.scopes)
    THEN Outcome(s, NoErr, TRUE, FALSE)
    ELSE Outcome(
            [s EXCEPT
                !.ent = @ \cup {[id |-> NewId(data, s.ent), name |-> data.name,
                                 accountable_email |-> data.accountable_email]},
                !.role = @ \cup ChildRows(data.roles, NewId(data, s.ent)),
                !.scope = @ \cup ChildRows(data.scopes, NewId(data, s.ent))],
            NoErr, TRUE, TRUE)

\* create_user adding the Role it built from the payload to the session
create_userAddsRole(s, data, dbfail) ==
    IF ~Has(data, "role") \/ ~Has(data, "scope") \/ ~Has(data, "enterprise")
    THEN Outcome(s, NoErr, FALSE, FALSE)
    ELSE IF dbfail \/ Get(s.usr, NewId(data, s.usr)) # {}
    THEN Outcome(s, NoErr, TRUE, FALSE)
    ELSE Outcome(
            [s EXCEPT
                !.usr = @ \cup
                    {[id |-> NewId(data, s.usr), username |-> data.username,
                      email |-> data.email, full_name |-> data.full_name,
                      role_id |-> data.role.id, scope_id |-> data.scope.id,
                      enterprise_id |-> data.enterprise.id]},
                !.role = @ \cup {[id |-> data.role.id + 10, name |-> data.role.name,
                                  enterprise_id |-> data.enterprise.id]}],
            NoErr, TRUE, TRUE)

\* create_user.db_access: every error is caught and logged; the nested
\* objects are popped before the `with db` block is entered
create_user(s, data, dbfail) ==
    IF ~Has(data, "role") \/ ~Has(data, "scope") \/ ~Has(data, "enterprise")
    THEN Outcome(s, NoErr, FALSE, FALSE)
    ELSE IF \/ dbfail
            \/ ~Has(data, "username")
            \/ ~Has(data, "email") \/ ~Has(data, "full_name")
            \/ Get(s.usr, NewId(data, s.usr)) # {}
    THEN Outcome(s, NoErr, TRUE, FALSE)
    ELSE Outcome(
            [s EXCEPT !.usr = @ \cup
                {[id |-> NewId(data, s.usr), username |-> data.username,
                  email |-> data.email, full_name |-> data.full_name,
                  role_id |-> data.role.id, scope_id |-> data.scope.id,
                  enterprise_id |-> data.enterprise.id]}],
            NoErr, TRUE, TRUE)

\* full_user: dict | None = None
NoUser == [absent |-> TRUE]

\* self.data.get(k): truthy when the key is there with a non-null, non-zero id
Truthy(data, k) == Has(data, k) /\ data[k] # NullId

\* BaseRole.get_roles_by_names(enterprise_id, [name]) ... .first(), and its
\* counterpart for scopes: the row of that name in that enterprise, if any
ByName(table, eid, name) ==
    {r \in table : r.enterprise_id = eid /\ r.name = name}
First(rows) == IF rows = {} THEN {}
               ELSE {CHOOSE r \in rows : \A q \in rows : r.id <= q.id}

\* the role update_user resolves: data["role_id"] when truthy, else
\* data["role_name"] within the enterprise
ResolveRole(s, data) ==
    IF data.role_id # NullId THEN Get(s.role, data.role_id)
    ELSE IF Has(data, "role_name")
         THEN First(ByName(s.role, data.enterprise_id, data.role_name))
         ELSE {}

\* the scope update_user resolves: only inside the role_name branch
ResolveScope(s, data) ==
    IF data.role_id # NullId THEN {}
    ELSE IF ~Has(data, "role_name") THEN {}
    ELSE IF Has(data, "scope_id") THEN Get(s.scope, data.scope_id)
    ELSE IF Has(data, "scope_name")
         THEN First(ByName(s.scope, data.enterprise_id, data.scope_name))
         ELSE {}

\* user_read.scope.name in (ALL, user_read.scope.name == SELLS): the second
\* element of the tuple is a boolean, which no scope name equals
InsertAllowed(name) == name \in {ALL}

\* a constructor that reads the ids of the nested role, scope and enterprise
UserOfDumpWired(u) ==
    {[id |-> u.id, username |-> u.username, email |-> u.email,
      full_name |-> u.full_name, role_id |-> u.role.id,
      scope_id |-> u.scope.id, enterprise_id |-> u.enterprise.id]}

\* User(**user_read.model_dump()): the rows it builds.  The dump carries
\* role, scope and enterprise as dicts; User takes them as values of its
\* relationships, whose setters accept mapped objects only and raise
\* AttributeError on a dict: no row is built
UserOfDump(u) == {}

UserMerge(row, s, data) ==
    LET role == ResolveRole(s, data)
        scope == ResolveScope(s, data)
    IN  [row EXCEPT
            !.role_id = IF role # {} THEN (CHOOSE r \in role : TRUE).id ELSE @,
            !.scope_id = IF scope # {} THEN (CHOOSE r \in scope : TRUE).id ELSE @,
            !.username = IF Has(data, "username") THEN data.username ELSE @,
            !.email = IF Has(data, "email") THEN data.email ELSE @,
            !.full_name = IF Has(data, "full_name") THEN data.full_name ELSE @]

\* the guard without its test of data.get("enterprise_id")
UpdateGuardNoEnterprise(data, full_user) ==
    full_user # NoUser /\ Truthy(data, "id")

\* self.full_user is not None and self.data.get("enterprise_id")
\* and self.data.get("id")
UpdateGuard(data, full_user) ==
    full_user # NoUser /\ Truthy(data, "enterprise_id") /\ Truthy(data, "id")

\* the policy test with PATRIMONIAL let through, and with no scope refused
DeletePolicyLoose(name) == name \notin {ALL, SELLS, PATRIMONIAL}
DeletePolicyNever(name) == FALSE

\* user_read.scope.name not in (ALL, SELLS): the found user is deleted
DeletePolicy(name) == name \notin {ALL, SELLS}

\* update_user.db_access: every error is caught and logged
update_user(s, data, full_user, dbfail) ==
    IF ~UpdateGuard(data, full_user)
    THEN Outcome(s, NoErr, FALSE, FALSE)
    ELSE IF Get(s.usr, data.id) # {}
    THEN LET db_user == Row(s.usr, data.id)
         IN  IF DeletePolicy(full_user.scope.name)
             THEN IF dbfail THEN Outcome(s, NoErr, TRUE, FALSE)
                  ELSE Outcome([s EXCEPT !.usr = @ \ {db_user}], NoErr, TRUE, TRUE)
             ELSE IF ~Has(data, "role_id") THEN Outcome(s, NoErr, TRUE, FALSE)
             ELSE IF dbfail THEN Outcome(s, NoErr, TRUE, FALSE)
             ELSE Outcome([s EXCEPT !.usr = (@ \ {db_user})
                                       \cup {UserMerge(db_user, s, data)}],
                          NoErr, TRUE, TRUE)
    ELSE IF InsertAllowed(full_user.scope.name)
         THEN LET built == UserOfDump(full_user)
              IN  IF built = {} \/ dbfail \/ Ids(built) \cap Ids(s.usr) # {}
                  THEN Outcome(s, NoErr, TRUE, FALSE)
                  ELSE Outcome([s EXCEPT !.usr = @ \cup built], NoErr, TRUE, TRUE)
         ELSE Outcome(s, NoErr, TRUE, FALSE)

\* update_table with the branches of user.deleted and user.updated swapped
update_tableSwapped(ev) ==
    IF ev.event = ENTERPRISE_CREATED THEN <<"create_enterprise">>
    ELSE IF ev.event = ENTERPRISE_UPDATED THEN <<"update_enterprise">>
    ELSE IF ev.event = ENTERPRISE_DELETED THEN <<"delete_enterprise">>
    ELSE IF ev.event = USER_CREATED THEN <<"create_user">>
    ELSE IF ev.event = USER_DELETED THEN <<"update_user">>
    ELSE IF ev.event = USER_UPDATED THEN <<"delete_user">>
    ELSE <<>>

\* the if/elif chain of update_table: the mutators it invokes for an event
\* that passed the filter, in order
update_table(ev) ==
    IF ev.event = ENTERPRISE_CREATED THEN <<"create_enterprise">>
    ELSE IF ev.event = ENTERPRISE_UPDATED THEN <<"update_enterprise">>
    ELSE IF ev.event = ENTERPRISE_DELETED THEN <<"delete_enterprise">>
    ELSE IF ev.event = USER_CREATED THEN <<"create_user">>
    ELSE IF ev.event = USER_DELETED THEN <<"delete_user">>
    ELSE IF ev.event = USER_UPDATED THEN <<"update_user">>
    ELSE <<>>

\* the callback of a mutator run on store s
db_access(mutator, ev, s, dbfail) ==
    IF mutator = "create_enterprise" THEN create_enterprise(s, ev.data, dbfail)
    ELSE IF mutator = "update_enterprise" THEN update_enterprise(s, ev.data, dbfail)
    ELSE IF mutator = "delete_enterprise" THEN delete_enterprise(s, ev.data, dbfail)
    ELSE IF mutator = "create_user" THEN create_user(s, ev.data, dbfail)
    ELSE IF mutator = "delete_user" THEN delete_user(s, ev.data, dbfail)
    ELSE update_user(s, ev.data, ev.full_user, dbfail)

\* one invocation of the callback of the mutator update_table chose
Mutate(ev, s, dbfail) ==
    IF update_table(ev) = <<>> THEN Outcome(s, NoErr, FALSE, FALSE)
    ELSE db_access(update_table(ev)[1], ev, s, dbfail)

(***************************************************************************)
(* Initial stores and the messages of the channel.                         *)
(***************************************************************************)
EmptyStore == [ent |-> {}, usr |-> {}, role |-> {}, scope |-> {}]

\* the store of setup_db_defaults: one enterprise with its roles and
\* scopes, and one user
DefaultStore ==
    [ent |-> {[id |-> 1, name |-> "TestEnterprise",
               accountable_email |-> "testenterprise@test.mail.com"]},
     role |-> {[id |-> 1, name |-> "OWNER", enterprise_id |-> 1],
               [id |-> 2, name |-> "MANAGER", enterprise_id |-> 1],
               [id |-> 3, name |-> "COLLABORATOR", enterprise_id |-> 1]},
     scope |-> {[id |-> 1, name |-> SELLS, enterprise_id |-> 1],
                [id |-> 2, name |-> ALL, enterprise_id |-> 1],
                [id |-> 3, name |-> PATRIMONIAL, enterprise_id |-> 1],
                [id |-> 4, name |-> HUMAN_RESOURCE, enterprise_id |-> 1]},
     usr |-> {[id |-> 1, username |-> "testuser",
               email |-> "testemail@test.mail.com", full_name |-> "Test User",
               role_id |-> 1, scope_id |-> 3, enterprise_id |-> 1]}]

\* a raw message that decodes to a JSON object with all five required keys
Message(kind, scope, upd, data, user) ==
    [jtype |-> "object", has |-> Required, event |-> kind,
     event_scope |-> scope, update_scope |-> upd, start_date |-> "iso",
     data |-> data, user |-> user]

\* raw messages the parser does not make an event of
Malformed ==
    LET m == Message(USER_DELETED, ALL, NoScope, [id |-> 1], NoUser)
    IN  {[m EXCEPT !.jtype = "invalid", !.has = {}],
         [m EXCEPT !.has = Required \ {"origin"}],
         [m EXCEPT !.has = Required \ {"data", "start_date"}],
         [m EXCEPT !.start_date = "bad"],
         [m EXCEPT !.jtype = "number", !.has = {}],
         [m EXCEPT !.jtype = "array"]}

Snapshot(id, scopeId, scopeName) ==
    [id |-> id, username |-> "snapuser", email |-> "snap@test.mail.com",
     full_name |-> "Snap User", role |-> [id |-> 1, name |-> "OWNER"],
     scope |-> [id |-> scopeId, name |-> scopeName],
     enterprise |-> [id |-> 1, name |-> "TestEnterprise"]]

DeleteData == {[id |-> 1], [id |-> 2], [enterprise_id |-> 1]}

EnterpriseUpdateData ==
    {[id |-> 1, name |-> "UpdatedEnterprise"],
     [id |-> 1, accountable_email |-> "updated@test.mail.com"],
     [id |-> 2, name |-> "TestEnterprise"],
     [name |-> "UpdatedEnterprise"]}

EnterpriseCreateData ==
    {[id |-> 2, name |-> "Acme", accountable_email |-> "a@a.com",
      roles |-> <<[id |-> 11, name |-> "OWNER"]>>,
      scopes |-> <<[id |-> 21, name |-> ALL], [id |-> 22, name |-> SELLS]>>],
     [name |-> "Acme", accountable_email |-> "a@a.com",
      roles |-> <<[id |-> 11, name |-> "OWNER"]>>,
      scopes |-> <<[id |-> 21, name |-> ALL], [id |-> 22, name |-> SELLS]>>],
     [id |-> 2, name |-> "Acme", accountable_email |-> "a@a.com"]}

UserCreateData ==
    {[id |-> 2, username |-> "testuser2", email |-> "testemail2@test.mail.com",
      full_name |-> "Test User 2", role |-> [id |-> 1, name |-> "OWNER"],
      scope |-> [id |-> 2, name |-> ALL],
      enterprise |-> [id |-> 1, name |-> "TestEnterprise"]],
     [id |-> NullId, username |-> "testuser2",
      email |-> "testemail2@test.mail.com",
      full_name |-> "Test User 2", role |-> [id |-> 1, name |-> "OWNER"],
      scope |-> [id |-> 2, name |-> ALL],
      enterprise |-> [id |-> 1, name |-> "TestEnterprise"]],
     [id |-> 2, username |-> "testuser2", email |-> "testemail2@test.mail.com",
      full_name |-> "Test User 2"]}

\* user.updated payloads with the snapshot that comes with each
UserUpdates ==
    {<<[id |-> 1, enterprise_id |-> 1, role_id |-> NullId,
        role_name |-> "MANAGER", scope_id |-> 2, username |-> "updateduser"],
       Snapshot(1, 1, SELLS)>>,
     <<[id |-> 1, enterprise_id |-> 1, role_id |-> 2, email |-> "new@test.mail.com"],
       Snapshot(1, 2, ALL)>>,
     <<[id |-> 1, enterprise_id |-> 1, username |-> "updateduser"],
       Snapshot(1, 4, HUMAN_RESOURCE)>>,
     <<[id |-> 2, enterprise_id |-> 1, role_id |-> 1], Snapshot(2, 2, ALL)>>,
     <<[id |-> 1, enterprise_id |-> 1, role_id |-> 1], NoUser>>}

\* the events of the six kinds, in a scope this service applies
RelevantIn(scope, upd) ==
    {Message(ENTERPRISE_CREATED, scope, upd, d, NoUser) : d \in EnterpriseCreateData}
    \cup {Message(ENTERPRISE_UPDATED, scope, upd, d, NoUser) : d \in EnterpriseUpdateData}
    \cup {Message(ENTERPRISE_DELETED, scope, upd, d, NoUser) : d \in DeleteData}
    \cup {Message(USER_CREATED, scope, upd, d, NoUser) : d \in UserCreateData}
    \cup {Message(USER_UPDATED, scope, upd, p[1], p[2]) : p \in UserUpdates}
    \cup {Message(USER_DELETED, scope, upd, d, NoUser) : d \in DeleteData}

\* events this service ignores: a kind that is none of the six, or a scope
\* that is neither PATRIMONIAL nor ALL
Ignored ==
    {Message(OTHER_KIND, sc, NoScope, [id |-> 1], NoUser) : sc \in {ALL, PATRIMONIAL}}
    \cup {Message(k, HUMAN_RESOURCE, NoScope, [id |-> 1], NoUser) :
            k \in {ENTERPRISE_DELETED, USER_DELETED}}
    \cup {Message(USER_DELETED, SELLS, SELLS, [id |-> 1], NoUser)}

CoreInbox ==
    Malformed \cup Ignored \cup RelevantIn(ALL, NoScope)
    \cup {Message(USER_DELETED, SELLS, PATRIMONIAL, [id |-> 1], NoUser),
          Message(ENTERPRISE_DELETED, PATRIMONIAL, NoScope, [id |-> 1], NoUser)}

\* every combination of kind and scopes, for the scope filter
ScopeTags == DefaultScope \cup {""}

FilterInbox ==
    {Message(k, sc, up, [id |-> 2], NoUser) :
        k \in EnterpriseEvents \cup UserEvents \cup {OTHER_KIND},
        sc \in ScopeTags, up \in ScopeTags \cup {NoScope}}
    \cup {Message(USER_DELETED, ALL, NoScope, [enterprise_id |-> 1], NoUser)}

\* user.updated payloads: role and scope given by id, by name, or not at all
UserUpdatePayloads(id) ==
    {[id |-> id, enterprise_id |-> 1, role_id |-> NullId, role_name |-> "MANAGER",
      scope_id |-> 2, username |-> "updateduser"],
     [id |-> id, enterprise_id |-> 1, role_id |-> NullId, role_name |-> Null,
      scope_id |-> 3, scope_name |-> Null, username |-> "updateduser",
      email |-> "updatedemail@test.mail.com"],
     [id |-> id, enterprise_id |-> 1, role_id |-> NullId, role_name |-> "MANAGER",
      scope_name |-> ALL],
     [id |-> id, enterprise_id |-> 1, role_id |-> 2, scope_id |-> 1,
      email |-> "new@test.mail.com"],
     [id |-> id, enterprise_id |-> 1, role_id |-> NullId, scope_id |-> 2],
     [id |-> id, enterprise_id |-> 1, scope_id |-> 2, username |-> "updateduser"]}

\* user.updated payloads without enterprise_id or without id
UserUpdateIncomplete ==
    {[id |-> 1, role_id |-> 1, username |-> "updateduser"],
     [id |-> 2, role_id |-> 1],
     [enterprise_id |-> 1, role_id |-> 1, username |-> "updateduser"]}

\* user.updated events on a stored user (id 1) and on an unknown one (id 2),
\* with a snapshot of each scope or with none, plus two user.deleted events
UserInbox ==
    UNION {{Message(USER_UPDATED, ALL, NoScope, d, Snapshot(id, sc.id, sc.name)) :
                d \in UserUpdatePayloads(id), sc \in DefaultStore.scope} :
            id \in {1, 2}}
    \cup {Message(USER_UPDATED, ALL, NoScope, d, NoUser) : d \in UserUpdatePayloads(1)}
    \cup {Message(USER_UPDATED, ALL, NoScope, d, u) :
            d \in UserUpdateIncomplete,
            u \in {NoUser, Snapshot(1, 4, HUMAN_RESOURCE), Snapshot(2, 2, ALL)}}
    \cup {Message(USER_DELETED, ALL, NoScope, d, NoUser) :
            d \in {[id |-> 1], [enterprise_id |-> 1]}}

\* enterprise.updated payloads with null, absent and colliding fields
EnterpriseUpdateShapes ==
    {[id |-> 1, name |-> "UpdatedEnterprise",
      accountable_email |-> "updatedenterprise@test.mail.com"],
     [id |-> 1, name |-> "UpdatedEnterprise", accountable_email |-> Null],
     [id |-> 1, name |-> Null, accountable_email |-> "updated@test.mail.com"],
     [id |-> 1, name |-> Null, accountable_email |-> Null],
     [id |-> 1, accountable_email |-> "updated@test.mail.com"],
     [id |-> 2, name |-> "TestEnterprise"],
     [id |-> 2, name |-> "UpdatedEnterprise", accountable_email |-> Null]}

\* enterprise events: every update shape, one creation, one deletion
EnterpriseInbox ==
    {Message(ENTERPRISE_UPDATED, ALL, NoScope, d, NoUser) :
        d \in EnterpriseUpdateShapes}
    \cup {Message(ENTERPRISE_CREATED, ALL, NoScope, d, NoUser) :
            d \in EnterpriseCreateData}
    \cup {Message(ENTERPRISE_DELETED, ALL, NoScope, [id |-> 1], NoUser)}

\* the event of two tasks that run at once: its mutator commits a change, or
\* raises when the commit fails
ConcInbox ==
    {Message(USER_DELETED, ALL, NoScope, [id |-> 1], NoUser)}

\* what json.loads may make of a raw message, and what its start_date may be:
\* an ISO-8601 string, another string, a value that is not a string
JTypes == Undecodable \cup {"object", "array", "string"} \cup JScalar
Dates == {"iso", "bad", "notastring"}

\* raw messages of every decoded type, with every set of required names
\* present, plus a user.deleted event whose mutator raises
ParserInbox ==
    LET m == Message(USER_DELETED, ALL, NoScope, [id |-> 1], NoUser)
    IN  {[m EXCEPT !.jtype = t, !.has = {}] : t \in Undecodable \cup JScalar}
        \cup {[m EXCEPT !.jtype = t, !.has = h, !.start_date = d] :
                t \in {"object", "array", "string"}, h \in SUBSET Required,
                d \in Dates}
        \cup {Message(USER_DELETED, ALL, NoScope, [enterprise_id |-> 1], NoUser)}

(***************************************************************************)
(* Products: the rows of table "product", its constraints, and the         *)
(* requests of the product endpoints.                                      *)
(***************************************************************************)
\* the largest id table "product" hands out
MaxProductId == 2

\* names a request body can carry: those of the product fixtures
ProductNames == {"Test Product", "Test Product 2"}

\* the rank of a default role: lower is more senior
get_default_hierarchy(role) ==
    CASE role = "OWNER" -> 1
      [] role = "MANAGER" -> 2
      [] role = "COLLABORATOR" -> 3

\* the authenticated callers (current_user): a manager and a collaborator
\* of enterprise 1, a collaborator of enterprise 2 and a collaborator without
\* an enterprise
Callers ==
    {[id |-> 1, enterprise_id |-> 1, scope |-> "Patrimonial",
      hierarchy |-> get_default_hierarchy("MANAGER")],
     [id |-> 2, enterprise_id |-> 2, scope |-> "All",
      hierarchy |-> get_default_hierarchy("COLLABORATOR")],
     [id |-> 3, enterprise_id |-> NullId, scope |-> "Patrimonial",
      hierarchy |-> get_default_hierarchy("COLLABORATOR")],
     [id |-> 4, enterprise_id |-> 1, scope |-> "Patrimonial",
      hierarchy |-> get_default_hierarchy("COLLABORATOR")]}

\* authorize_user: the caller's scope is one of the operation's scopes, the
\* caller's rank is at least as senior as the operation's, and the custom
\* check holds
authorize_user(user, operation_scopes, operation_hierarchy_order, custom_checks) ==
    /\ user.scope \in operation_scopes
    /\ user.hierarchy <= operation_hierarchy_order
    /\ custom_checks

\* a price that is not set (None)
NoPrice == -1

\* a request body of POST /products/
ProductCreate(name) ==
    [name |-> name, cost |-> 50, stock |-> 10,
     description |-> "A product for testing purposes"]

\* the row create_product builds from the body and the caller
BaseProduct(id, body, user) ==
    [id |-> id, name |-> body.name, cost |-> body.cost, stock |-> body.stock,
     description |-> body.description, price |-> NoPrice,
     enterprise_id |-> user.enterprise_id, created_by |-> user.id,
     last_updated_by |-> NullId]

\* the fields of ProductUpdate, in the order model_dump lists them
ProductUpdateFields == <<"cost", "name", "stock", "price", "description">>

\* the sets of fields a request body of PUT /products/{id} sets explicitly
UpdateFieldSets ==
    {{"stock"}, {"name"}, {"cost", "price", "description"}}

\* a request body of PUT /products/{id}: the fields it sets and their values
ProductUpdate(fields_set) ==
    [fields_set |-> fields_set, name |-> "Test Product 2", cost |-> 60,
     stock |-> 5, price |-> 70, description |-> "changed"]

\* product.model_dump(exclude_unset=True).keys()
Keys(body) ==
    SelectSeq(ProductUpdateFields, LAMBDA k : k \in body.fields_set)

\* any([k != "stock" for k in keys])
RECURSIVE AnyNotStock(_)
AnyNotStock(keys) ==
    IF keys = <<>> THEN FALSE
    ELSE Head(keys) # "stock" \/ AnyNotStock(Tail(keys))

\* the custom check without its rank alternative
custom_checksStockOnly(body, user) == ~AnyNotStock(Keys(body))

\* the custom_checks argument update_product passes to authorize_user
custom_checks(body, user) ==
    \/ ~AnyNotStock(Keys(body))
    \/ user.hierarchy <= get_default_hierarchy("MANAGER")

\* for key, value in ...items(): setattr(db_product, key, value), and the
\* caller recorded as the last updater
ApplyUpdate(row, body, user) ==
    [k \in DOMAIN row |->
        IF k \in body.fields_set THEN body[k]
        ELSE IF k = "last_updated_by" THEN user.id
        ELSE row[k]]

\* the select without its filter on the caller's enterprise
SelectProductAnyEnterprise(rows, product_id, user) ==
    {p \in rows : p.id = product_id}

\* select(BaseProduct).where(id == product_id)
\*                    .where(enterprise_id == current_user.enterprise_id)
SelectProduct(rows, product_id, user) ==
    {p \in rows : p.id = product_id /\ p.enterprise_id = user.enterprise_id}

\* the id the table gives a new row
NextProductId(rows) ==
    IF rows = {} THEN 1
    ELSE 1 + (CHOOSE m \in {r.id : r \in rows} : \A r \in rows : r.id <= m)

\* column name is declared unique: no other row has the name
UniqueName(rows, row) ==
    \A q \in rows : q.id = row.id \/ q.name # row.name

\* UniqueConstraint("name", "enterprise_id"): no other row has the name in
\* the same enterprise
UniqueNameEnterprise(rows, row) ==
    \A q \in rows :
        q.id = row.id \/ ~(q.name = row.name /\ q.enterprise_id = row.enterprise_id)

\* the constraints of table "product" a flushed row must satisfy
IntegrityOk(rows, row) ==
    /\ UniqueName(rows, row)
    /\ UniqueNameEnterprise(rows, row)

NoRequest == [op |-> "none"]
NoResponse == [status |-> 0, id |-> NullId]
\* the answers of the endpoints: 200, HTTPException 403 and 404, and 500 for
\* the IntegrityError a commit raises
Response(status, id) == [status |-> status, id |-> id]

(***************************************************************************)
(* State.                                                                  *)
(***************************************************************************)
VARIABLES
    inbox,      \* which channel the consumer reads: "core" or "filter"
    store,      \* the relational store: [ent, usr, role, scope]
    processed,  \* number of messages handed to process_message so far
    pc,         \* where the consumer task is: "idle", "while", "except",
                \* "sleep_none", "sleep_err"
    cur,        \* the message being processed (the last one, when idle)
    parsed,     \* what create_from_message made of cur: "none", "raise", "event"
    relevant,   \* the verdict of _check_valid_user_event on cur's event
    counter,    \* __db_access_loop: counter
    db,         \* __db_access_loop: db (NoDb, or the number of a session)
    err,        \* __db_access_loop: err
    exc,        \* the exception in flight when pc = "except"
    sess,       \* the sessions get_db() yielded for cur, in order: for each
                \* the calls made on it and its is_active flag
    attempts,   \* number of next(get_db()) calls made for cur (saturating)
    calls,      \* number of mutator invocations made for cur
    nones,      \* number of attempts for cur in which get_db() yielded None
    result,     \* how process_message ended for cur: "pending", "returned",
                \* "raised"
    raised,     \* the error process_message raised (NoErr when it returned)
    pre,        \* the store when process_message was called for cur
    seq,        \* the arrival number of cur (0 before the first message)
    other,      \* the task of the event loop that is not running: its pc,
                \* cur, parsed, relevant, counter, db, err, exc, sess,
                \* attempts, calls, nones, result, raised, pre and seq
    product,    \* the rows of table "product"
    req,        \* the last request made to the product endpoints
    resp        \* the answer to req: its status and the id of its product

vars == <<inbox, store, processed, pc, cur, parsed, relevant, counter, db, err,
          exc, sess, attempts, calls, nones, result, raised, pre, seq, other,
          product, req, resp>>

Min(a, b) == IF a < b THEN a ELSE b

(***************************************************************************)
(* Sessions.                                                               *)
(***************************************************************************)
\* a session get_db() has just yielded
NewSession == [log |-> <<>>, active |-> TRUE]
\* a close() that does nothing
CloseNothing(x) == x

\* db.close() / db.rollback(): both end the transaction, so is_active is true
Close(x) == [log |-> Append(x.log, "close"), active |-> TRUE]
RollbackMissing(x) == x
Rollback(x) == [log |-> Append(x.log, "rollback"), active |-> TRUE]
\* the loop without its `if db.is_active: db.close()`
CloseIfActiveNever(x) == x

\* if db.is_active: db.close()
CloseIfActive(x) == IF x.active THEN Close(x) ELSE x
\* db_function_callback(db): the calls the mutator makes on the session (a
\* commit that succeeds is logged); a failed commit leaves it inactive until
\* the `with` block's exit closes it
AfterCallback(x, out, dbfail) ==
    LET used == [log |-> x.log \o (IF out.committed THEN <<"callback", "commit">>
                                    ELSE <<"callback">>),
                 active |-> IF out.entered /\ ~out.committed /\ dbfail
                            THEN FALSE ELSE x.active]
    IN  IF out.entered THEN Close(used) ELSE used

(***************************************************************************)
(* __db_access_loop                                                        *)
(***************************************************************************)
\* `raise err` in the body of the coroutine: the caller sees the error
\* itself, except a StopIteration, which reaches it as a RuntimeError
RaiseErr(e) == IF e = StopIter THEN RuntimeErr ELSE e

\* LoopExit without the `if db is None` check
LoopExitErrOnly(c, d, e) ==
    IF c = 0 /\ e # NoErr THEN [result |-> "raised", raised |-> RaiseErr(e)]
    ELSE [result |-> "returned", raised |-> NoErr]

\* the code after the while loop: what the call ends with
LoopExit(c, d, e) ==
    IF c = 0 /\ d = NoDb THEN [result |-> "raised", raised |-> ConnectError]
    ELSE IF c = 0 /\ e # NoErr THEN [result |-> "raised", raised |-> RaiseErr(e)]
    ELSE [result |-> "returned", raised |-> NoErr]

\* Break with the break statement missing: the loop goes round again
BreakMissing(c, d, e) ==
    [pc |-> "while", result |-> "pending", raised |-> NoErr]

\* break: the loop is left and the code after it runs
Break(c, d, e) ==
    [pc |-> "idle", result |-> LoopExit(c, d, e).result,
     raised |-> LoopExit(c, d, e).raised]

\* what next(get_db()) may do: yield a session, yield None, raise an error
\* of the session factory, find its generator exhausted
ProviderOutcomes == {"session", "none", "raise", "stop"}

\* one pass through the try block: up to its first await, its break or the
\* raise of an exception
Try ==
    /\ pc = "while"
    /\ counter > 0
    /\ attempts' = Min(attempts + 1, MaxObserved)
    /\ \E outcome \in ProviderOutcomes, dbfail \in BOOLEAN :
          \/ /\ outcome \in {"raise", "stop"}
             /\ exc' = IF outcome = "stop" THEN StopIter ELSE AcquireError
             /\ pc' = "except"
             /\ UNCHANGED <<store, db, sess, calls, nones, result, raised>>
          \/ /\ outcome = "none"
             /\ db' = NoDb
             /\ nones' = nones + 1
             /\ pc' = "sleep_none"
             /\ UNCHANGED <<store, exc, sess, calls, result, raised>>
          \/ /\ outcome = "session"
             /\ db' = Len(sess) + 1
             /\ calls' = calls + 1
             /\ LET out == Mutate(EventOf(cur), store, dbfail)
                    used == AfterCallback(NewSession, out, dbfail)
                IN  /\ store' = out.store
                    /\ IF out.exc = NoErr
                       THEN /\ sess' = Append(sess, CloseIfActive(used))
                            /\ exc' = NoErr
                            /\ pc' = Break(counter, db', err).pc
                            /\ result' = Break(counter, db', err).result
                            /\ raised' = Break(counter, db', err).raised
                       ELSE /\ sess' = Append(sess, used)
                            /\ exc' = out.exc
                            /\ pc' = "except"
                            /\ UNCHANGED <<result, raised>>
             /\ UNCHANGED nones
    /\ UNCHANGED <<inbox, processed, cur, parsed, relevant, counter, err, pre, seq, other,
                   product, req, resp>>

\* the except clause, up to its await or its end
Except ==
    /\ pc = "except"
    /\ err' = exc
    /\ exc' = NoErr
    /\ IF db # NoDb
       THEN /\ sess' = [sess EXCEPT ![db] = CloseIfActive(Rollback(@))]
            /\ pc' = "sleep_err"
       ELSE /\ sess' = sess
            /\ pc' = "while"
    /\ UNCHANGED <<inbox, store, processed, cur, parsed, relevant, counter, db,
                   attempts, calls, nones, result, raised, pre, seq, other,
                   product, req, resp>>

\* await asyncio.sleep(5); counter -= 1; continue   (no session)
WakeNone ==
    /\ pc = "sleep_none"
    /\ counter' = counter - 1
    /\ pc' = "while"
    /\ UNCHANGED <<inbox, store, processed, cur, parsed, relevant, db, err, exc,
                   sess, attempts, calls, nones, result, raised, pre, seq, other,
                   product, req, resp>>

\* await asyncio.sleep(5); counter -= 1; continue   (after an error)
WakeErr ==
    /\ pc = "sleep_err"
    /\ counter' = counter - 1
    /\ pc' = "while"
    /\ UNCHANGED <<inbox, store, processed, cur, parsed, relevant, db, err, exc,
                   sess, attempts, calls, nones, result, raised, pre, seq, other,
                   product, req, resp>>

\* while counter > 0 is false: the code after the loop
Exhausted ==
    /\ pc = "while"
    /\ counter = 0
    /\ pc' = "idle"
    /\ result' = LoopExit(counter, db, err).result
    /\ raised' = LoopExit(counter, db, err).raised
    /\ UNCHANGED <<inbox, store, processed, cur, parsed, relevant, counter, db,
                   err, exc, sess, attempts, calls, nones, pre, seq, other,
                   product, req, resp>>

(***************************************************************************)
(* process_message and update_table                                        *)
(***************************************************************************)
\* the raw messages a channel may deliver
Inbox(channel) ==
    IF channel = "filter" THEN FilterInbox
    ELSE IF channel = "parser" THEN ParserInbox
    ELSE IF channel = "user" THEN UserInbox
    ELSE IF channel = "enterprise" THEN EnterpriseInbox
    ELSE IF channel = "conc" THEN ConcInbox
    ELSE CoreInbox

\* update_table: `if not self._check_valid_user_event(): return`, else the
\* mutator of the kind starts its retry loop
DispatchAlways(ok) == "while"
Dispatch(ok) == IF ok THEN "while" ELSE "idle"

\* process_message(message) up to the first step of the retry loop
ProcessMessage ==
    /\ pc = "idle"
    /\ processed < MaxMessages
    /\ \E m \in Inbox(inbox) :
          LET p == create_from_message(m)
              ok == p.tag = "event" /\ check_valid_user_event(p.ev)
          IN  /\ cur' = m
              /\ parsed' = p.tag
              /\ relevant' = ok
              /\ pc' = Dispatch(ok)
              /\ result' = IF Dispatch(ok) = "while" THEN "pending"
                           ELSE IF p.tag = "raise" THEN "raised" ELSE "returned"
              /\ raised' = IF p.tag = "raise" THEN p.exc ELSE NoErr
    /\ processed' = processed + 1
    /\ pre' = store
    /\ seq' = processed + 1
    /\ counter' = Retries
    /\ db' = NoDb
    /\ err' = NoErr
    /\ exc' = NoErr
    /\ sess' = <<>>
    /\ attempts' = 0
    /\ calls' = 0
    /\ nones' = 0
    /\ UNCHANGED <<inbox, store, other, product, req, resp>>

\* a task that has not been started, or has ended: it has no locals
NoTask ==
    [pc |-> "idle",
     cur |-> Message(OTHER_KIND, NoScope, NoScope, [id |-> 1], NoUser),
     parsed |-> "none", relevant |-> FALSE, counter |-> Retries,
     db |-> NoDb, err |-> NoErr, exc |-> NoErr, sess |-> <<>>,
     attempts |-> 0, calls |-> 0, nones |-> 0, result |-> "returned",
     raised |-> NoErr, pre |-> EmptyStore, seq |-> 0]

\* the points of process_message at which the event loop may run another
\* task: the two `await asyncio.sleep(5)`, and before and after the call
Suspended == {"idle", "sleep_none", "sleep_err"}

\* the event loop leaves the running task at a suspension point and resumes
\* (or is ready to start) the other one
Switch ==
    /\ pc \in Suspended
    /\ pc' = other.pc
    /\ cur' = other.cur
    /\ parsed' = other.parsed
    /\ relevant' = other.relevant
    /\ counter' = other.counter
    /\ db' = other.db
    /\ err' = other.err
    /\ exc' = other.exc
    /\ sess' = other.sess
    /\ attempts' = other.attempts
    /\ calls' = other.calls
    /\ nones' = other.nones
    /\ result' = other.result
    /\ raised' = other.raised
    /\ pre' = other.pre
    /\ seq' = other.seq
    /\ other' = IF pc = "idle" THEN NoTask
                ELSE [pc |-> pc, cur |-> cur, parsed |-> parsed,
                      relevant |-> relevant, counter |-> counter, db |-> db,
                      err |-> err, exc |-> exc, sess |-> sess,
                      attempts |-> attempts, calls |-> calls, nones |-> nones,
                      result |-> result, raised |-> raised, pre |-> pre,
                      seq |-> seq]
    /\ UNCHANGED <<inbox, store, processed, product, req, resp>>

Next ==
    \/ ProcessMessage
    \/ Try
    \/ Except
    \/ WakeNone
    \/ WakeErr
    \/ Exhausted

InitWith(box, stores) ==
    /\ inbox = box
    /\ store \in stores
    /\ processed = 0
    /\ pc = "idle"
    /\ cur = Message(OTHER_KIND, NoScope, NoScope, [id |-> 1], NoUser)
    /\ parsed = "none"
    /\ relevant = FALSE
    /\ counter = Retries
    /\ db = NoDb
    /\ err = NoErr
    /\ exc = NoErr
    /\ sess = <<>>
    /\ attempts = 0
    /\ calls = 0
    /\ nones = 0
    /\ result = "returned"
    /\ raised = NoErr
    /\ pre = store
    /\ seq = 0
    /\ other = NoTask
    /\ product = {}
    /\ req = NoRequest
    /\ resp = NoResponse

Init == InitWith("core", {EmptyStore, DefaultStore})

Spec == Init /\ [][Next]_vars

\* the event loop resumes a task that can take a step
Fairness ==
    /\ WF_vars(Try)
    /\ WF_vars(Except)
    /\ WF_vars(WakeNone)
    /\ WF_vars(WakeErr)
    /\ WF_vars(Exhausted)

FairSpec == Spec /\ Fairness

(***************************************************************************)
(* The scope filter on every combination of kind and scopes: one message   *)
(* is drawn and processed.                                                 *)
(***************************************************************************)
FilterInit ==
    /\ InitWith("filter", {DefaultStore})

FilterSpec == FilterInit /\ [][Next]_vars

(***************************************************************************)
(* The parser on raw messages of every shape.                              *)
(***************************************************************************)
ParserInit ==
    /\ InitWith("parser", {DefaultStore})

ParserSpec == ParserInit /\ [][Next]_vars

(***************************************************************************)
(* user.updated events of every shape on the store of the tests.           *)
(***************************************************************************)
UserInit ==
    /\ InitWith("user", {DefaultStore})

UserSpec == UserInit /\ [][Next]_vars

(***************************************************************************)
(* Enterprise events of every update shape on the store of the tests.      *)
(***************************************************************************)
EnterpriseInit ==
    /\ InitWith("enterprise", {DefaultStore})

EnterpriseSpec == EnterpriseInit /\ [][Next]_vars

(***************************************************************************)
(* Two process_message tasks on one event loop: a task runs until it       *)
(* awaits a sleep or ends, and then either task may go on.                 *)
(***************************************************************************)
ConcInit ==
    /\ InitWith("conc", {DefaultStore})

ConcNext ==
    \/ Next
    \/ Switch

ConcSpec == ConcInit /\ [][ConcNext]_vars

(***************************************************************************)
(* The product endpoints: callers of several enterprises create products.  *)
(***************************************************************************)
\* the variables the product endpoints leave alone
consumer == <<inbox, store, processed, pc, cur, parsed, relevant, counter, db,
              err, exc, sess, attempts, calls, nones, result, raised, pre,
              seq, other>>

\* POST /products/
create_product ==
    \E user \in Callers, name \in ProductNames :
        LET body == ProductCreate(name)
            row  == BaseProduct(NextProductId(product), body, user)
        IN  /\ NextProductId(product) <= MaxProductId
            /\ req' = [op |-> "create", user |-> user, product_id |-> NullId,
                       body |-> body]
            /\ IF ~authorize_user(user, {"Patrimonial", "All"},
                                  get_default_hierarchy("COLLABORATOR"), TRUE)
               THEN /\ resp' = Response(403, NullId)
                    /\ UNCHANGED product
               ELSE IF user.enterprise_id = NullId
               THEN /\ resp' = Response(403, NullId)
                    /\ UNCHANGED product
               ELSE IF IntegrityOk(product, row)
               THEN /\ product' = product \cup {row}
                    /\ resp' = Response(200, row.id)
               ELSE /\ resp' = Response(500, NullId)
                    /\ UNCHANGED product
            /\ UNCHANGED consumer

\* GET /products/{product_id}
read_product ==
    \E user \in Callers, product_id \in 1..MaxProductId :
        LET db_product == SelectProduct(product, product_id, user)
        IN  /\ req' = [op |-> "read", user |-> user, product_id |-> product_id,
                       body |-> ProductUpdate({})]
            /\ resp' = IF ~authorize_user(user, {"Patrimonial", "All"},
                                          get_default_hierarchy("COLLABORATOR"),
                                          TRUE)
                       THEN Response(403, NullId)
                       ELSE IF db_product = {} THEN Response(404, NullId)
                       ELSE Response(200, product_id)
            /\ UNCHANGED product
            /\ UNCHANGED consumer

\* PUT /products/{product_id}
update_product ==
    \E user \in Callers, product_id \in 1..MaxProductId,
       fields_set \in UpdateFieldSets :
        LET body == ProductUpdate(fields_set)
            db_product == SelectProduct(product, product_id, user)
        IN  /\ req' = [op |-> "update", user |-> user, product_id |-> product_id,
                       body |-> body]
            /\ IF ~authorize_user(user, {"Patrimonial", "All"},
                                  get_default_hierarchy("COLLABORATOR"),
                                  custom_checks(body, user))
               THEN /\ resp' = Response(403, NullId)
                    /\ UNCHANGED product
               ELSE IF db_product = {}
               THEN /\ resp' = Response(404, NullId)
                    /\ UNCHANGED product
               ELSE LET old == CHOOSE p \in db_product : TRUE
                        new == ApplyUpdate(old, body, user)
                    IN  IF IntegrityOk(product, new)
                        THEN /\ product' = (product \ {old}) \cup {new}
                             /\ resp' = Response(200, product_id)
                        ELSE /\ resp' = Response(500, NullId)
                             /\ UNCHANGED product
            /\ UNCHANGED consumer

\* DELETE /products/{product_id}
delete_product ==
    \E user \in Callers, product_id \in 1..MaxProductId :
        LET db_product == SelectProduct(product, product_id, user)
        IN  /\ req' = [op |-> "delete", user |-> user, product_id |-> product_id,
                       body |-> ProductUpdate({})]
            /\ IF ~authorize_user(user, {"Patrimonial", "All"},
                                  get_default_hierarchy("MANAGER"), TRUE)
               THEN /\ resp' = Response(403, NullId)
                    /\ UNCHANGED product
               ELSE IF db_product = {}
               THEN /\ resp' = Response(404, NullId)
                    /\ UNCHANGED product
               ELSE /\ product' = product \ db_product
                    /\ resp' = Response(200, product_id)
            /\ UNCHANGED consumer

ProductInit ==
    /\ InitWith("core", {DefaultStore})

ProductNext ==
    \/ create_product
    \/ read_product
    \/ update_product
    \/ delete_product

ProductSpec == ProductInit /\ [][ProductNext]_vars

(***************************************************************************)
(* Properties.                                                             *)
(***************************************************************************)
\* the retry loop of cur has ended (process_message is over)
Finished == processed > 0 /\ pc = "idle"
\* cur reached the retry loop
Applied == processed > 0 /\ relevant

\* the last two calls made on a session
LastTwo(x) ==
    IF Len(x.log) < 2 THEN <<>> ELSE SubSeq(x.log, Len(x.log) - 1, Len(x.log))

\* how many times a call was made on a session
Times(x, op) == Cardinality({i \in DOMAIN x.log : x.log[i] = op})

\* the mutator invoked for cur committed its transaction
Committed ==
    /\ Len(sess) >= 1
    /\ Times(sess[Len(sess)], "commit") = 1

\* the one mutator invocation made for cur tried to commit and the commit
\* failed (the mutator logged the error)
CommitFailed ==
    /\ calls = 1
    /\ Mutate(EventOf(cur), pre, FALSE).committed
    /\ ~Committed

\* cur is a relevant user.updated event whose mutator has been invoked
UserUpdateInvoked ==
    /\ processed > 0 /\ relevant
    /\ cur.event = USER_UPDATED
    /\ calls = 1

\* ... and it carries the snapshot, data.enterprise_id and data.id
UserUpdateApplied ==
    /\ UserUpdateInvoked
    /\ cur.user # NoUser
    /\ Has(cur.data, "enterprise_id") /\ Has(cur.data, "id")

\* the user the event is about was in the store when the event arrived
Existed == Get(pre.usr, cur.data.id) # {}

\* the Scope and the Role the payload names: by id or, failing that, by name
\* within the enterprise
WantedScope(s, data) ==
    IF Has(data, "scope_id") /\ Get(s.scope, data.scope_id) # {}
    THEN Get(s.scope, data.scope_id)
    ELSE IF Has(data, "scope_name")
         THEN First(ByName(s.scope, data.enterprise_id, data.scope_name))
         ELSE {}
\* the User a snapshot describes
SnapshotUser(u) ==
    [id |-> u.id, username |-> u.username, email |-> u.email,
     full_name |-> u.full_name, role_id |-> u.role.id,
     scope_id |-> u.scope.id, enterprise_id |-> u.enterprise.id]
WantedRole(s, data) ==
    IF Has(data, "role_id") /\ Get(s.role, data.role_id) # {}
    THEN Get(s.role, data.role_id)
    ELSE IF Has(data, "role_name")
         THEN First(ByName(s.role, data.enterprise_id, data.role_name))
         ELSE {}

\* C1: for every sequence of provider and mutator outcomes the loop makes
\* at most 5 session-acquisition attempts for one event.
C1_AtMostFiveAttempts == attempts <= Retries

\* C2: every accepted message runs to completion: the retry loop
\* eventually ends, by returning or by raising.
C2_LoopTerminates == (pc # "idle") ~> (pc = "idle")

\* C3: when the budget is exhausted the loop raises the generic connection
\* error if and only if no attempt of the call acquired a session, and the
\* last captured error when some attempt did.
C3_GenericErrorIffNeverAcquired ==
    (Finished /\ Applied /\ counter = 0) =>
        /\ result = "raised"
        /\ (raised = ConnectError) <=> (Len(sess) = 0)
        /\ Len(sess) > 0 => raised = err

\* C4: five attempts that yield no session make process_message raise; the
\* mutator is never invoked and the store is as it was.
C4_FiveNonesRaise ==
    (Finished /\ Applied /\ nones = Retries) =>
        /\ result = "raised"
        /\ raised = ConnectError
        /\ calls = 0
        /\ sess = <<>>
        /\ store = pre

C4_Witness ==
    /\ Finished /\ Applied /\ nones = Retries
    /\ result = "raised"
    /\ cur.event = ENTERPRISE_DELETED
    /\ Get(store.ent, cur.data.id) # {}

\* C5: when the first k-1 attempts yield no session and attempt k yields
\* one, the mutator is invoked exactly once and the call returns without
\* raising.
C5_OneCallAfterNones ==
    (Applied /\ Len(sess) >= 1 /\ attempts = nones + 1) =>
        /\ Finished
        /\ result = "returned"
        /\ calls = 1

\* C6: once a mutator invocation returns without raising, the loop ends
\* without an error, whatever failed before; from then on no session is
\* acquired and no mutator is invoked for that message; a first attempt that
\* succeeds is the only call of the provider.
C6_StopsAfterSuccess ==
    [][/\ (calls' = calls + 1 /\ exc' = NoErr) =>
            /\ pc' = "idle"
            /\ result' = "returned"
            /\ raised' = NoErr
            /\ (attempts = 0 => attempts' = 1)
       /\ (pc = "idle" /\ processed' = processed) =>
            UNCHANGED <<attempts, calls, sess, store>>]_vars

C6_Witness ==
    /\ Finished /\ Applied
    /\ result = "returned"
    /\ calls = 2
    /\ err # NoErr
    /\ store # pre

\* C7: when the mutator raises, the session of that attempt is rolled back
\* and then closed before the next attempt starts, and that attempt takes
\* exactly one from the counter.
C7_RollbackCloseDecrement ==
    (Applied /\ pc \in {"while", "sleep_none"}) =>
        /\ \A i \in DOMAIN sess : LastTwo(sess[i]) = <<"rollback", "close">>
        /\ attempts = nones + calls => counter + nones + calls
                                          = Retries + (IF pc = "while" THEN 0 ELSE 1)

C7_Witness ==
    /\ Applied /\ pc = "while"
    /\ calls = 3 /\ nones = 1 /\ attempts = 4
    /\ counter = 1

\* C8: no error raised inside a mutator reaches the retry loop: the loop
\* invokes the mutator once and never handles a mutator's error.
C8_NoMutatorErrorEscapes ==
    /\ calls <= 1
    /\ pc = "except" => exc \in {AcquireError, StopIter}

\* C9 as stated: a message that is not accepted and relevant ends without
\* database access, with the store unchanged and without an error.
C9_IgnoredNeverRaises ==
    (Finished /\ ~relevant) =>
        /\ attempts = 0 /\ calls = 0 /\ sess = <<>>
        /\ store = pre
        /\ result = "returned"

\* C9 amended: sessions are acquired and mutators invoked only for an
\* accepted, relevant message; any other message ends at once, without
\* database access and with the store unchanged, and raises an error exactly
\* when the parser itself raised.
C9_IgnoredNoAccess ==
    /\ (attempts > 0 \/ calls > 0 \/ sess # <<>> \/ pc # "idle") =>
            (parsed = "event" /\ relevant)
    /\ (processed > 0 /\ ~relevant) =>
            /\ pc = "idle"
            /\ store = pre
            /\ (result = "raised") <=> (parsed = "raise")
            /\ (result = "returned") <=> (parsed # "raise")

C9_Witness ==
    /\ Finished /\ ~relevant
    /\ parsed = "event"
    /\ cur.event = USER_DELETED
    /\ cur.event_scope = HUMAN_RESOURCE
    /\ Get(store.usr, cur.data.id) # {}

\* C10: the filter accepts an event exactly when its kind is one of the six
\* and event_scope or update_scope (absent = "") is PATRIMONIAL or ALL.
C10_FilterIff ==
    (processed > 0 /\ parsed = "event") =>
        (relevant <=>
            /\ cur.event \in {ENTERPRISE_CREATED, ENTERPRISE_UPDATED,
                              ENTERPRISE_DELETED, USER_CREATED, USER_UPDATED,
                              USER_DELETED}
            /\ \/ cur.event_scope \in {PATRIMONIAL, ALL}
               \/ (cur.update_scope # NoScope
                   /\ cur.update_scope \in {PATRIMONIAL, ALL}))

C10_Witness ==
    /\ processed > 0 /\ relevant
    /\ cur.event = USER_UPDATED
    /\ cur.event_scope = SELLS
    /\ cur.update_scope = PATRIMONIAL

\* C11: a message that does not decode as JSON makes create_from_message
\* return None; process_message then returns without raising and without
\* touching the database.
C11_InvalidJsonDropped ==
    (processed > 0 /\ cur.jtype \in Undecodable) =>
        /\ parsed = "none"
        /\ pc = "idle"
        /\ result = "returned"
        /\ raised = NoErr
        /\ attempts = 0
        /\ store = pre

\* C12: a message that decodes as JSON, of whatever type, but lacks one of
\* the five required fields makes create_from_message return None without
\* raising.
C12_MissingFieldReturnsNone ==
    (processed > 0 /\ cur.jtype \notin Undecodable /\ cur.has # Required) =>
        /\ parsed = "none"
        /\ result = "returned"
        /\ raised = NoErr

\* C13: a message with all five required fields whose start_date is not an
\* ISO-8601 timestamp makes the parser raise: the error reaches the caller
\* of process_message and no session is acquired.
C13_BadDatePropagates ==
    (processed > 0 /\ cur.jtype = "object" /\ cur.has = Required
        /\ cur.start_date # "iso") =>
        /\ parsed = "raise"
        /\ pc = "idle"
        /\ result = "raised"
        /\ raised \in {ValueErr, TypeErr}
        /\ attempts = 0
        /\ sess = <<>>
        /\ store = pre

C13_Witness ==
    /\ processed > 0
    /\ cur.jtype = "object" /\ cur.has = Required
    /\ cur.start_date = "bad"
    /\ result = "raised"
    /\ raised = ValueErr

\* C14: a session serves one attempt only: it is passed to the mutator once
\* and rolled back at most once, in the attempt that acquired it; no later
\* attempt rolls it back or closes it again.
C14_SessionOfOneAttempt ==
    \A i \in DOMAIN sess :
        /\ Times(sess[i], "callback") = 1
        /\ Times(sess[i], "rollback") <= 1
        /\ Times(sess[i], "close") <= 2

\* C15: a user.updated event on a stored user whose snapshot scope is
\* neither ALL nor SELLS deletes that user (when the commit goes through)
\* and changes nothing else: no field of the payload is applied.
C15_ForeignScopeDeletes ==
    (UserUpdateApplied /\ Existed /\ ~CommitFailed
        /\ cur.user.scope.name \notin {ALL, SELLS}) =>
        store = [pre EXCEPT !.usr = @ \ Get(pre.usr, cur.data.id)]

C15_Witness ==
    /\ UserUpdateApplied /\ Existed
    /\ cur.user.scope.name = HUMAN_RESOURCE
    /\ Has(cur.data, "username")
    /\ Get(store.usr, cur.data.id) = {}

\* C16 as stated: after a user.updated event has been applied, the user is
\* gone or the Scope its scope_id refers to is named ALL or SELLS.
C16_ResolvedScopeAllowed ==
    (UserUpdateApplied /\ ~CommitFailed) =>
        \A u \in Get(store.usr, cur.data.id) :
            \E sc \in store.scope : sc.id = u.scope_id /\ sc.name \in {ALL, SELLS}

\* C16 amended: after a user.updated event has been applied (and no commit
\* failed), the user is gone or the scope name of the snapshot is ALL or
\* SELLS; the Scope the stored user refers to is not examined.
C16_SnapshotScopeAllowed ==
    (UserUpdateApplied /\ ~CommitFailed) =>
        \/ Get(store.usr, cur.data.id) = {}
        \/ cur.user.scope.name \in {ALL, SELLS}

C16_Witness ==
    /\ UserUpdateApplied /\ Committed
    /\ cur.user.scope.name = SELLS
    /\ \E u \in Get(store.usr, cur.data.id) :
          /\ u.username = "updateduser"
          /\ \E sc \in store.scope : sc.id = u.scope_id /\ sc.name = PATRIMONIAL

\* C17: a user.updated event whose data.id matches no stored user
\* leaves the store unchanged and raises nothing.
C17_UnknownIdNoOp ==
    (UserUpdateInvoked /\ Has(cur.data, "id") /\ ~Existed) =>
        /\ store = pre
        /\ result = "returned"

C17_Witness ==
    /\ UserUpdateApplied /\ ~Existed
    /\ cur.user.scope.name = ALL
    /\ Finished /\ result = "returned"
    /\ calls = 1 /\ ~CommitFailed
    /\ store = pre

\* C18: a user.updated event whose data.id matches no stored user inserts a
\* user built from the snapshot when the snapshot scope is ALL or SELLS, and
\* leaves the store unchanged for every other snapshot scope.
C18_InsertForAllOrSells ==
    (UserUpdateApplied /\ ~Existed /\ ~CommitFailed) =>
        IF cur.user.scope.name \in {ALL, SELLS}
        THEN store = [pre EXCEPT !.usr = @ \cup {SnapshotUser(cur.user)}]
        ELSE store = pre

\* C19: a user.updated event on a stored user whose snapshot scope is ALL or
\* SELLS sets the user's scope_id to the Scope the payload names and its
\* role_id to the Role the payload names, each independently of the other.
C19_RoleAndScopeResolved ==
    (UserUpdateApplied /\ Existed /\ ~CommitFailed
        /\ cur.user.scope.name \in {ALL, SELLS}) =>
        \A u \in Get(store.usr, cur.data.id) :
            /\ \A sc \in WantedScope(pre, cur.data) : u.scope_id = sc.id
            /\ \A r \in WantedRole(pre, cur.data) : u.role_id = r.id

\* C20: a user.updated event without the snapshot, without
\* data.enterprise_id or without data.id leaves the store unchanged, and
\* its mutator, once invoked, returns without an error.
C20_IncompleteUpdateNoOp ==
    (/\ processed > 0 /\ relevant
     /\ cur.event = USER_UPDATED
     /\ \/ cur.user = NoUser
        \/ ~Has(cur.data, "enterprise_id")
        \/ ~Has(cur.data, "id")) =>
        /\ store = pre
        /\ calls >= 1 =>
                /\ calls = 1
                /\ pc = "idle"
                /\ result = "returned"
                /\ raised = NoErr

C20_Witness ==
    /\ UserUpdateInvoked
    /\ cur.user # NoUser
    /\ cur.user.scope.name = HUMAN_RESOURCE
    /\ ~Has(cur.data, "enterprise_id")
    /\ Has(cur.data, "id")
    /\ Get(store.usr, cur.data.id) # {}
    /\ result = "returned"

\* C21: an enterprise.updated, enterprise.deleted or user.deleted event whose
\* data.id matches no stored entity is a no-op: the mutator is invoked on
\* one session, the store is unchanged and nothing is raised.
C21_UnknownEntityNoOp ==
    (/\ Applied /\ calls >= 1
     /\ Has(cur.data, "id")
     /\ \/ /\ cur.event \in {ENTERPRISE_UPDATED, ENTERPRISE_DELETED}
           /\ Get(pre.ent, cur.data.id) = {}
        \/ /\ cur.event = USER_DELETED
           /\ Get(pre.usr, cur.data.id) = {}) =>
        /\ pc = "idle"
        /\ calls = 1
        /\ Len(sess) = 1
        /\ store = pre
        /\ result = "returned"
        /\ raised = NoErr

C21_Witness ==
    /\ Applied /\ calls = 1 /\ pc = "idle"
    /\ cur.event = USER_DELETED
    /\ Has(cur.data, "id")
    /\ Get(pre.usr, cur.data.id) = {}
    /\ pre.usr # {}
    /\ result = "returned"

\* C22: an enterprise.deleted (user.deleted) event whose data.id matches a
\* stored Enterprise (User) removes that row and no other: a lookup by the id
\* finds nothing afterwards, and users, roles and scopes are as they were.
C22_DeleteRemovesOneRow ==
    (Finished /\ Applied /\ result = "returned" /\ Has(cur.data, "id")) =>
        /\ (cur.event = ENTERPRISE_DELETED /\ Get(pre.ent, cur.data.id) # {}) =>
                /\ Get(store.ent, cur.data.id) = {}
                /\ store = [pre EXCEPT !.ent = @ \ Get(pre.ent, cur.data.id)]
        /\ (cur.event = USER_DELETED /\ Get(pre.usr, cur.data.id) # {}) =>
                /\ Get(store.usr, cur.data.id) = {}
                /\ store = [pre EXCEPT !.usr = @ \ Get(pre.usr, cur.data.id)]

C22_Witness ==
    /\ Finished /\ Applied /\ result = "returned"
    /\ cur.event = ENTERPRISE_DELETED
    /\ Has(cur.data, "id")
    /\ Get(pre.ent, cur.data.id) # {}
    /\ Get(store.ent, cur.data.id) = {}
    /\ \E u \in store.usr : u.enterprise_id = cur.data.id

\* the payload names a primary key (its id is there and is not null)
HasId(d) == Has(d, "id") /\ d.id # NullId

\* C23: an enterprise.created event applied when no Enterprise of that id or
\* name exists stores, in one commit, one Enterprise with the payload's
\* fields (under the payload's id, or under a new id when the payload names
\* none) and exactly the payload's roles and scopes as its children: all of
\* them are stored, or (when the commit fails) none is.
C23_EnterpriseCreatedWhole ==
    (/\ Applied /\ calls = 1
     /\ cur.event = ENTERPRISE_CREATED
     /\ Has(cur.data, "roles") /\ Has(cur.data, "scopes")
     /\ \A e \in pre.ent : (HasId(cur.data) => e.id # cur.data.id)
                           /\ e.name # cur.data.name) =>
        LET d == cur.data
            whole(eid) ==
                [pre EXCEPT
                    !.ent = @ \cup {[id |-> eid, name |-> d.name,
                                     accountable_email |-> d.accountable_email]},
                    !.role = @ \cup {[id |-> d.roles[i].id, name |-> d.roles[i].name,
                                      enterprise_id |-> eid] : i \in DOMAIN d.roles},
                    !.scope = @ \cup {[id |-> d.scopes[i].id, name |-> d.scopes[i].name,
                                       enterprise_id |-> eid] : i \in DOMAIN d.scopes}]
            stored == \E eid \in Ids(store.ent) \ Ids(pre.ent) :
                        /\ HasId(d) => eid = d.id
                        /\ store = whole(eid)
        IN  /\ store = pre \/ stored
            /\ Committed => stored
            /\ (/\ ~CommitFailed
                /\ \A i \in DOMAIN d.roles : Get(pre.role, d.roles[i].id) = {}
                /\ \A i \in DOMAIN d.scopes : Get(pre.scope, d.scopes[i].id) = {})
                    => stored
            /\ Cardinality(store.ent) <= Cardinality(pre.ent) + 1

C23_Witness ==
    /\ Applied /\ calls = 1 /\ Committed
    /\ cur.event = ENTERPRISE_CREATED
    /\ pre.ent # {}
    /\ ~HasId(cur.data)
    /\ \E e \in store.ent \ pre.ent : e.name = cur.data.name
    /\ Cardinality(store.scope) = Cardinality(pre.scope) + 2
    /\ Cardinality(store.role) = Cardinality(pre.role) + 1

\* C24: a user.created event stores one new User (under the payload's id,
\* or under a new id when the payload names none) whose role_id, scope_id
\* and enterprise_id are the ids of the payload's nested role, scope and
\* enterprise, and inserts no Role, Scope or Enterprise.
C24_UserCreatedWired ==
    (Applied /\ calls = 1 /\ cur.event = USER_CREATED) =>
        /\ store.role = pre.role /\ store.scope = pre.scope /\ store.ent = pre.ent
        /\ ~Committed => store = pre
        /\ Committed =>
            \E uid \in Ids(store.usr) \ Ids(pre.usr) :
                /\ HasId(cur.data) => uid = cur.data.id
                /\ store.usr = pre.usr \cup
                    {[id |-> uid, username |-> cur.data.username,
                      email |-> cur.data.email, full_name |-> cur.data.full_name,
                      role_id |-> cur.data.role.id, scope_id |-> cur.data.scope.id,
                      enterprise_id |-> cur.data.enterprise.id]}

C24_Witness ==
    /\ Applied /\ calls = 1 /\ Committed
    /\ cur.event = USER_CREATED
    /\ ~HasId(cur.data)
    /\ \E u \in store.usr \ pre.usr :
          /\ u.username = cur.data.username
          /\ u.role_id = cur.data.role.id
          /\ u.scope_id = cur.data.scope.id
          /\ u.enterprise_id = cur.data.enterprise.id
    /\ Cardinality(store.usr) = 2

\* C25: an enterprise.updated event on a stored Enterprise sets each field
\* that is non-null in the payload to the payload's value and leaves the
\* null and absent fields, and every other row of the store, as they were.
C25_MergeNonNull ==
    (/\ Finished /\ Applied
     /\ cur.event = ENTERPRISE_UPDATED
     /\ Has(cur.data, "id")
     /\ Get(pre.ent, cur.data.id) # {}) =>
        LET d == cur.data
            old == Row(pre.ent, d.id)
            new == [id |-> old.id,
                    name |-> IF Has(d, "name") /\ d.name # Null
                             THEN d.name ELSE old.name,
                    accountable_email |->
                             IF Has(d, "accountable_email") /\ d.accountable_email # Null
                             THEN d.accountable_email ELSE old.accountable_email]
        IN  /\ Committed => store = [pre EXCEPT !.ent = (@ \ {old}) \cup {new}]
            /\ ~Committed => store = pre

C25_Witness ==
    /\ Finished /\ Applied /\ Committed
    /\ cur.event = ENTERPRISE_UPDATED
    /\ Has(cur.data, "name") /\ cur.data.name = Null
    /\ cur.data.accountable_email # Null
    /\ \E e \in Get(store.ent, cur.data.id) :
          /\ e.name = "TestEnterprise"
          /\ e.accountable_email = cur.data.accountable_email

\* the last call made on a session is close
Closed(x) == Len(x.log) > 0 /\ x.log[Len(x.log)] = "close"

\* C30: when the retry loop has returned or raised, every session the
\* provider handed out during the call has been closed.
C30_AllSessionsClosed ==
    (Finished /\ Applied) => \A i \in DOMAIN sess : Closed(sess[i])

C30_Witness ==
    /\ Finished /\ Applied
    /\ result = "raised"
    /\ Len(sess) = Retries
    /\ \A i \in DOMAIN sess : Closed(sess[i])

\* C28: applying a relevant event a second time, right after it has been
\* applied with an available session, leaves the store as the first
\* application left it and raises no error.
C28_ApplyTwice ==
    (Finished /\ Applied /\ calls >= 1 /\ ~CommitFailed) =>
        LET again == Mutate(EventOf(cur), store, FALSE)
        IN  /\ again.exc = NoErr
            /\ again.store = store

\* C26: with two process_message tasks interleaved at their backoff waits,
\* a suspended task holds no open session: every session a task acquired
\* has been closed by the time the task awaits, so sessions of two events
\* never overlap.
C26_NoSessionHeldWhileSuspended ==
    /\ other.pc \in Suspended
    /\ \A i \in DOMAIN other.sess : Closed(other.sess[i])
    /\ pc \in Suspended => \A i \in DOMAIN sess : Closed(sess[i])

C26_Witness ==
    /\ pc = "sleep_err" /\ other.pc = "sleep_err"
    /\ seq > other.seq /\ other.seq > 0
    /\ Len(sess) >= 1 /\ Len(other.sess) >= 2

\* C27: messages are applied one after the other, in arrival order: no
\* mutation of a later message is committed while an earlier message is
\* still inside its retry loop.
C27_ArrivalOrder ==
    ~(/\ relevant /\ Committed
      /\ other.seq > 0 /\ other.seq < seq
      /\ other.pc \in {"sleep_none", "sleep_err"})

\* C29: product names are unique per enterprise: storing a product is
\* rejected for its name if and only if a product with the same name
\* already exists in the same enterprise (so two enterprises can each own a
\* product with the same name)
C29_NameUniquePerEnterprise ==
    (req.op = "create" /\ resp.status \in {200, 500}) =>
        (resp.status = 500 <=>
            \E q \in product :
                /\ q.id # resp.id
                /\ q.name = req.body.name
                /\ q.enterprise_id = req.user.enterprise_id)

\* C31: every failed attempt (no session, acquisition raises, mutator
\* raises) takes exactly one from the counter and is followed by exactly one
\* wait: whenever the loop is about to start an attempt, the attempts made
\* so far equal the waits made so far, and the fatal error is raised after
\* exactly 5 attempts and 5 waits.
C31_OneWaitPerFailedAttempt ==
    /\ (Applied /\ pc = "while") => attempts = Retries - counter
    /\ (Applied /\ Finished /\ result = "raised") =>
            attempts = Retries /\ counter = 0

\* the number of commits made on the sessions acquired for cur
Commits == Cardinality({i \in DOMAIN sess : Times(sess[i], "commit") >= 1})

\* C32: when an error escaped the mutator on attempts 1..k-1 (a session
\* being acquired each time) and attempt k completes without error, the
\* mutation of the event is committed exactly once, by attempt k, the store
\* is the one a single application gives, and the call returns without
\* raising.
C32_CommittedOnceAfterRetries ==
    /\ (Finished /\ Applied /\ attempts = calls /\ calls >= 2
            /\ result = "returned") =>
            /\ calls <= Retries
            /\ Commits = 1 /\ Committed
            /\ \A i \in DOMAIN sess : Times(sess[i], "commit") <= 1
            /\ store = Mutate(EventOf(cur), pre, FALSE).store
            /\ raised = NoErr
    /\ (Applied /\ attempts = calls /\ calls >= 1 /\ Committed) =>
            /\ Finished
            /\ result = "returned" /\ raised = NoErr
            /\ Commits = 1
            /\ store = Mutate(EventOf(cur), pre, FALSE).store

C32_Witness ==
    /\ Finished /\ Applied
    /\ cur.event = USER_DELETED
    /\ attempts = 3 /\ calls = 3
    /\ result = "returned"
    /\ Commits = 1
    /\ store # pre

\* C33: a user.updated event on a stored user whose snapshot scope is ALL or
\* SELLS sets, among username, email and full_name, exactly the fields whose
\* keys are present in data, whatever the shape of data (payloads without
\* role_id included), and leaves the user's id and enterprise_id as they
\* were.
C33_ProfileFieldsFromData ==
    (UserUpdateApplied /\ Existed /\ ~CommitFailed
        /\ cur.user.scope.name \in {ALL, SELLS}) =>
        /\ Get(store.usr, cur.data.id) # {}
        /\ \A u \in Get(store.usr, cur.data.id), old \in Get(pre.usr, cur.data.id) :
            /\ \A f \in {"username", "email", "full_name"} :
                  u[f] = IF Has(cur.data, f) THEN cur.data[f] ELSE old[f]
            /\ u.id = old.id
            /\ u.enterprise_id = old.enterprise_id

\* the mutator the event kinds are meant to be applied by
MutatorFor(kind) ==
    CASE kind = ENTERPRISE_CREATED -> "create_enterprise"
      [] kind = ENTERPRISE_UPDATED -> "update_enterprise"
      [] kind = ENTERPRISE_DELETED -> "delete_enterprise"
      [] kind = USER_CREATED -> "create_user"
      [] kind = USER_UPDATED -> "update_user"
      [] kind = USER_DELETED -> "delete_user"
      [] OTHER -> "none"

\* C34: for a relevant event update_table invokes exactly one mutator, the
\* one of the event kind; every kind the scope filter accepts has one, and
\* each invocation of the callback applies that mutator to the store.
C34_OneMatchingMutator ==
    Applied =>
        /\ update_table(EventOf(cur)) = <<MutatorFor(cur.event)>>
        /\ MutatorFor(cur.event) # "none"
        /\ \A f \in BOOLEAN :
              Mutate(EventOf(cur), store, f)
                = db_access(MutatorFor(cur.event), EventOf(cur), store, f)

C34_Witness ==
    /\ Applied /\ Finished
    /\ cur.event = USER_DELETED
    /\ update_table(EventOf(cur)) = <<"delete_user">>
    /\ calls = 1
    /\ Get(pre.usr, cur.data.id) # {}
    /\ Get(store.usr, cur.data.id) = {}

\* C35: when the retry loop raises the fatal error for an event, the store
\* holds exactly the rows it held when the event arrived: no attempt
\* committed and no partial effect of a failed attempt is persisted.
C35_FatalLeavesStore ==
    (Applied /\ Finished /\ result = "raised") =>
        /\ store = pre
        /\ Commits = 0

C35_Witness ==
    /\ Applied /\ Finished /\ result = "raised"
    /\ raised = DbError
    /\ cur.event = ENTERPRISE_DELETED
    /\ calls = Retries
    /\ Get(store.ent, cur.data.id) # {}
    /\ \E u \in store.usr : u.enterprise_id = cur.data.id

\* the products the caller of request r may see under the id r names
Mine(r) ==
    {p \in product : p.id = r.product_id
                        /\ p.enterprise_id = r.user.enterprise_id}

\* C36: tenant isolation of the product endpoints: read_product,
\* update_product and delete_product succeed only for a product of the
\* caller's enterprise; for a product of another enterprise or a missing id
\* they answer 404 (403 when the caller is not authorized at all) and leave
\* the table unchanged; no call reads, modifies or deletes a product of
\* another enterprise, and every product created carries the enterprise_id
\* of its creator.
C36_TenantIsolation ==
    [][/\ req'.op \in {"read", "update", "delete"} =>
            /\ resp'.status = 200 => (Mine(req') # {} /\ resp'.id = req'.product_id)
            /\ Mine(req') = {} =>
                    (resp'.status \in {403, 404} /\ product' = product)
            /\ \A p \in product :
                    p.enterprise_id # req'.user.enterprise_id => p \in product'
            /\ \A q \in product' \ product :
                    /\ q.id = req'.product_id
                    /\ q.enterprise_id = req'.user.enterprise_id
                    /\ Mine(req') # {}
       /\ req'.op = "create" =>
            /\ product \subseteq product'
            /\ \A q \in product' \ product :
                    /\ req'.user.enterprise_id # NullId
                    /\ q.enterprise_id = req'.user.enterprise_id
                    /\ q.created_by = req'.user.id]_vars

C36_Witness ==
    /\ req.op = "delete"
    /\ req.user.hierarchy <= get_default_hierarchy("MANAGER")
    /\ resp.status = 404
    /\ \E p \in product :
          /\ p.id = req.product_id
          /\ p.enterprise_id # req.user.enterprise_id
          /\ p.enterprise_id # NullId

\* C37: the custom check of update_product passes if and only if the body
\* sets no field other than stock or the caller's rank is at most MANAGER's;
\* an update by a caller ranked below MANAGER that sets another field is
\* refused, and no such caller changes the name, cost, price or description
\* of a product.
C37_CustomCheck ==
    /\ [](\A fields_set \in SUBSET {"cost", "name", "stock", "price", "description"},
             u \in Callers :
              custom_checks(ProductUpdate(fields_set), u)
                <=> \/ fields_set \subseteq {"stock"}
                    \/ u.hierarchy <= get_default_hierarchy("MANAGER"))
    /\ [][(req'.op = "update"
              /\ req'.user.hierarchy > get_default_hierarchy("MANAGER")) =>
            /\ ~(req'.body.fields_set \subseteq {"stock"}) =>
                    (resp'.status = 403 /\ product' = product)
            /\ \A p \in product : \E q \in product' :
                    /\ q.id = p.id
                    /\ q.name = p.name
                    /\ q.cost = p.cost
                    /\ q.price = p.price
                    /\ q.description = p.description]_vars

C37_Witness ==
    /\ req.op = "update"
    /\ req.user.hierarchy > get_default_hierarchy("MANAGER")
    /\ req.body.fields_set = {"name"}
    /\ resp.status = 403
    /\ \E p \in product :
          /\ p.id = req.product_id
          /\ p.enterprise_id = req.user.enterprise_id
          /\ p.name # req.body.name

====
